---- MODULE Spec2Model ----
(***************************************************************************)
(* Terminal-velocity data readers of src/data/__init__.py.                 *)
(*                                                                         *)
(* The module is a library of pure functions.  The state machine below has *)
(* one action per function: the action draws the function's inputs (the    *)
(* rows loadtxt reads from the data file, and the keyword arguments),      *)
(* runs the function and records the inputs, the function's locals and     *)
(* what it returned or raised.                                             *)
(*                                                                         *)
(* Numbers.  A float is a record [nan, num, den]: the not-a-number value,  *)
(* or the rational num/den (den > 0).  Comparisons follow IEEE-754: every  *)
(* comparison with NaN is false.  Rounding of float64 is not modelled.     *)
(***************************************************************************)
EXTENDS Integers, Sequences, FiniteSets

VARIABLES fn, data, dsinl, bin, inv_ok, filt, singlon, ret

vars == <<fn, data, dsinl, bin, inv_ok, filt, singlon, ret>>

(* ------------------------------ bounds -------------------------------- *)

\* rows of a data file read by one reader, and of a direct _binlbins call
MaxRows == 3
\* rows of each of the two files read by readallMcClureGriffiths
MaxRowsAll == 2
\* length of the sequence given to a direct _calc_corr call
MaxN == 3

(* ------------------------------ floats -------------------------------- *)

NaN == [nan |-> TRUE, num |-> 0, den |-> 1]

Flt(n, d) == [nan |-> FALSE, num |-> n, den |-> d]

FLt(a, b) == ~a.nan /\ ~b.nan /\ a.num * b.den < b.num * a.den

FGt(a, b) == FLt(b, a)

FLe(a, b) == ~a.nan /\ ~b.nan /\ a.num * b.den <= b.num * a.den

FEq(a, b) == ~a.nan /\ ~b.nan /\ a.num * b.den = b.num * a.den

\* a + b; operands over one denominator (the values of one column) keep it
FAdd(a, b) ==
    IF a.nan \/ b.nan THEN NaN
    ELSE IF a.den = b.den THEN Flt(a.num + b.num, a.den)
    ELSE Flt(a.num * b.den + b.num * a.den, a.den * b.den)

FNeg(a) == IF a.nan THEN NaN ELSE Flt(0 - a.num, a.den)

FSub(a, b) == FAdd(a, FNeg(b))

\* np.fabs
FAbs(a) == IF a.nan THEN NaN ELSE Flt(IF a.num < 0 THEN 0 - a.num ELSE a.num, a.den)

\* a / b for b > 0 (dsinl, a count)
FDiv(a, b) == IF a.nan \/ b.nan THEN NaN ELSE Flt(a.num * b.den, a.den * b.num)

\* np.isnan
IsNaN(a) == a.nan

\* int(np.floor(a)) of a finite float
Floor(a) == a.num \div a.den

(* --------------------------- numpy helpers ---------------------------- *)

RECURSIVE Sum(_)
Sum(x) == IF Len(x) = 0 THEN Flt(0, 1)
          ELSE IF Len(x) = 1 THEN x[1]
          ELSE FAdd(x[1], Sum(Tail(x)))

\* mutant of Mean: the sum divided by one more than the count
MeanCountOffByOne(x) == IF Len(x) = 0 THEN NaN ELSE FDiv(Sum(x), Flt(Len(x) + 1, 1))

\* np.mean: NaN for an empty array (0/0), otherwise sum / count
Mean(x) == IF Len(x) = 0 THEN NaN ELSE FDiv(Sum(x), Flt(Len(x), 1))

RECURSIVE Amin(_)
Amin(x) == IF Len(x) = 1 THEN x[1]
           ELSE LET m == Amin(Tail(x)) IN IF FLt(x[1], m) THEN x[1] ELSE m

RECURSIVE Amax(_)
Amax(x) == IF Len(x) = 1 THEN x[1]
           ELSE LET m == Amax(Tail(x)) IN IF FGt(x[1], m) THEN x[1] ELSE m

\* x[indx] for a boolean array indx: the selected elements, in order
RECURSIVE Take(_, _)
Take(x, indx) ==
    IF Len(x) = 0 THEN <<>>
    ELSE (IF indx[1] THEN <<x[1]>> ELSE <<>>) \o Take(Tail(x), Tail(indx))

\* mutant of Window: the edges belong to the window
WindowClosed(x, lo, hi) == [i \in 1..Len(x) |-> FLe(lo, x[i]) /\ FLe(x[i], hi)]

\* (x > lo) * (x < hi): the product of the two boolean arrays
Window(x, lo, hi) == [i \in 1..Len(x) |-> FGt(x[i], lo) /\ FLt(x[i], hi)]

\* mutant of NotNaN: nothing is dropped
NotNaNKeepsAll(x) == [i \in 1..Len(x) |-> TRUE]

\* ~np.isnan(x)
NotNaN(x) == [i \in 1..Len(x) |-> ~IsNaN(x[i])]

\* data[:, 0] and data[:, 1]
Col0(table) == [i \in 1..Len(table) |-> table[i].glon]

Col1(table) == [i \in 1..Len(table) |-> table[i].vterm]

(* ------------------------------ results ------------------------------- *)

Ok(v) == [status |-> "ok", val |-> v]

Raise(exc) == [status |-> exc, val |-> <<>>]

(* ----------------------------- _binlbins ------------------------------ *)

\* mutant of BinIndx: the bins are walked from the greatest longitude down
BinIndxDescending(glon, minglon, ii) ==
    Window(glon, Flt(Floor(Amax(glon)) - ii, 1), Flt(Floor(Amax(glon)) - ii + 1, 1))

\* line 107: the members of the bin of loop iteration ii
BinIndx(glon, minglon, ii) ==
    Window(glon, Flt(minglon + ii, 1), Flt(minglon + ii + 1, 1))

\* mutant of Nout: the last bin is forgotten
NoutNoPlusOne(glon) == Floor(Amax(glon)) - Floor(Amin(glon))

\* line 103: the number of output bins
Nout(glon) == Floor(Amax(glon)) - Floor(Amin(glon)) + 1

\* lines 104-111: the loop over the bins, for a non-empty glon
BinLoop(glon, vterm) ==
    LET minglon == Floor(Amin(glon))
        nout == Nout(glon)
        glon_out == [k \in 1..nout |-> Mean(Take(glon, BinIndx(glon, minglon, k - 1)))]
        vterm_out == [k \in 1..nout |-> Mean(Take(vterm, BinIndx(glon, minglon, k - 1)))]
    IN Ok(<<glon_out, vterm_out>>)

\* mutant of _binlbins: an empty input gives an empty binned sample
_binlbinsEmptyOk(glon, vterm, dl) ==
    IF Len(glon) = 0 THEN Ok(<< <<>>, <<>> >>) ELSE BinLoop(glon, vterm)

\* np.amin of an empty array raises ValueError; dl is never read
_binlbins(glon, vterm, dl) ==
    IF Len(glon) = 0 THEN Raise("ValueError") ELSE BinLoop(glon, vterm)

(* ----------------------------- _calc_corr ----------------------------- *)

\* A matrix entry is [nan, a, b, eps], the float 0.5*(exp(a) + exp(b)) + eps*1e-10;
\* exp is left uninterpreted, and 0.5*(y + y) = y exactly in float64.
Exp(x) == [nan |-> x.nan, a |-> x, b |-> x, eps |-> 0]

\* 0.5 * (m + mT) on entries that are plain exponentials
HalfSum(m, mT) == [nan |-> m.nan \/ mT.nan, a |-> m.a, b |-> mT.a, eps |-> 0]

\* np.eye
Eye(ii, jj) == IF ii = jj THEN 1 ELSE 0

\* m + 10.0 ** -10.0 * e for e in {0, 1}
AddEps(m, e) == [nan |-> m.nan, a |-> m.a, b |-> m.b, eps |-> m.eps + e]

\* mutant of CorrEntry: the difference without np.fabs
CorrEntrySigned(s, d, ii, jj) == Exp(FDiv(FNeg(FSub(s[ii], s[jj])), d))

\* line 86
CorrEntry(s, d, ii, jj) == Exp(FDiv(FNeg(FAbs(FSub(s[ii], s[jj]))), d))

_calc_corr(s, d) ==
    LET n == Len(s)
        corr == [ii \in 1..n |-> [jj \in 1..n |-> CorrEntry(s, d, ii, jj)]]
        sym == [ii \in 1..n |-> [jj \in 1..n |-> HalfSum(corr[ii][jj], corr[jj][ii])]]
    IN [ii \in 1..n |-> [jj \in 1..n |-> AddEps(sym[ii][jj], Eye(ii, jj))]]

(* ------------------------- np.sin, np.linalg.inv ---------------------- *)

\* decimal digits kept of a sine
SinDigits == 3

SinScale == 10 ^ SinDigits

\* floor(10^k * (q + r/Q)) by long division, r < Q
RECURSIVE FixDiv(_, _, _, _)
FixDiv(q, r, Q, k) ==
    IF k = 0 THEN q ELSE FixDiv(10 * q + (10 * r) \div Q, (10 * r) % Q, Q, k - 1)

\* sin of n/d degrees, 0 <= n/d <= 180, in units of 1/SinScale, by Bhaskara's
\* formula 4x(180-x) / (40500 - x(180-x)) (absolute error below 0.002)
SinDeg(n, d) ==
    LET P == n * (180 * d - n)
        Q == 40500 * d * d - P
    IN FixDiv((4 * P) \div Q, (4 * P) % Q, Q, SinDigits)

\* np.sin(x / 180.0 * np.pi) for 0 <= x <= 360 degrees
Sin(x) ==
    IF x.nan THEN NaN
    ELSE IF x.num <= 180 * x.den THEN Flt(SinDeg(x.num, x.den), SinScale)
    ELSE Flt(0 - SinDeg(x.num - 180 * x.den, x.den), SinScale)

\* rows of the kernel that float64 may not tell apart: a NaN, or two equal samples
IllConditioned(s) ==
    \/ \E i \in 1..Len(s) : s[i].nan
    \/ \E i, j \in 1..Len(s) : i # j /\ FEq(s[i], s[j])

\* np.linalg.inv: the inverse has the shape of its argument.  LAPACK reports a
\* singular matrix on an exactly zero pivot, which depends on rounding: for an
\* ill-conditioned kernel either outcome is allowed (ok chooses).
Inv(m, s, ok) ==
    IF IllConditioned(s) /\ ~ok THEN Raise("LinAlgError")
    ELSE Ok([inverse_of |-> m])

Dim(corr) == Len(corr.inverse_of)

(* ------------------------------ readers ------------------------------- *)

\* what a reader leaves behind: its result, its filtered columns and singlon
Frame(r, glon, vterm, s) == [filt |-> <<glon, vterm>>, singlon |-> s, ret |-> r]

\* lines 150-154, 192-196, 231-235: the correlation matrix and the record
TermVel(glon0, vterm0, glon, vterm, d, ok) ==
    LET s == [i \in 1..Len(glon) |-> Sin(glon[i])]
        corr == Inv(_calc_corr(s, d), s, ok)
    IN IF corr.status # "ok" THEN Frame(corr, glon0, vterm0, s)
       ELSE Frame(Ok(<<glon, vterm, corr.val>>), glon0, vterm0, s)

\* line 143: `bin` is no parameter of readClemens, so the name is the builtin
\* function bin, which is truthy
BuiltinBin == TRUE

\* kw is the keyword `bin` of the call: "absent", "True" or "False".  The
\* signature (line 120) has no such parameter: passing it raises TypeError.
readClemens(table, d, kw, ok) ==
    IF kw # "absent" THEN Frame(Raise("TypeError"), <<>>, <<>>, <<>>)
    ELSE
    LET indx == Window(Col0(table), Flt(40, 1), Flt(80, 1))
        glon0 == Take(Col0(table), indx)
        vterm0 == Take(Col1(table), indx)
    IN IF BuiltinBin
       THEN LET b == _binlbins(glon0, vterm0, Flt(1, 1))
            IN IF b.status # "ok" THEN Frame(b, glon0, vterm0, <<>>)
               ELSE LET keep == NotNaN(b.val[1])
                    IN TermVel(glon0, vterm0, Take(b.val[1], keep),
                               Take(b.val[2], keep), d, ok)
       ELSE TermVel(glon0, vterm0, glon0, vterm0, d, ok)

readMcClureGriffiths07(table, d, b, ok) ==
    LET indx == Window(Col0(table), Flt(280, 1), Flt(320, 1))
        glon0 == Take(Col0(table), indx)
        vterm0 == Take(Col1(table), indx)
    IN IF b
       THEN LET r == _binlbins(glon0, vterm0, Flt(1, 1))
            IN IF r.status # "ok" THEN Frame(r, glon0, vterm0, <<>>)
               ELSE TermVel(glon0, vterm0, r.val[1], r.val[2], d, ok)
       ELSE TermVel(glon0, vterm0, glon0, vterm0, d, ok)

readMcClureGriffiths16(table, d, b, ok) ==
    LET indx == Window(Col0(table), Flt(40, 1), Flt(80, 1))
        glon0 == Take(Col0(table), indx)
        vterm0 == Take(Col1(table), indx)
    IN IF b
       THEN LET r == _binlbins(glon0, vterm0, Flt(1, 1))
            IN IF r.status # "ok" THEN Frame(r, glon0, vterm0, <<>>)
               ELSE TermVel(glon0, vterm0, r.val[1], r.val[2], d, ok)
       ELSE TermVel(glon0, vterm0, glon0, vterm0, d, ok)

\* mutant of readallMcClureGriffiths: the 2016 fields come first
readall16First(t07, t16, d, b, ok07, ok16) ==
    LET f07 == readMcClureGriffiths07(t07, d, b, ok07)
        f16 == readMcClureGriffiths16(t16, d, b, ok16)
    IN IF f07.ret.status # "ok"
       THEN [filt |-> <<f07.filt>>, singlon |-> <<f07.singlon>>, ret |-> f07.ret]
       ELSE IF f16.ret.status # "ok"
       THEN [filt |-> <<f07.filt, f16.filt>>,
             singlon |-> <<f07.singlon, f16.singlon>>, ret |-> f16.ret]
       ELSE [filt |-> <<f07.filt, f16.filt>>,
             singlon |-> <<f07.singlon, f16.singlon>>,
             ret |-> Ok(f16.ret.val \o f07.ret.val)]

\* lines 245-250: the two records unpacked into one tuple; the first reader
\* that raises ends the call, and the 2016 reader then never runs
readallMcClureGriffiths(t07, t16, d, b, ok07, ok16) ==
    LET f07 == readMcClureGriffiths07(t07, d, b, ok07)
        f16 == readMcClureGriffiths16(t16, d, b, ok16)
    IN IF f07.ret.status # "ok"
       THEN [filt |-> <<f07.filt>>, singlon |-> <<f07.singlon>>, ret |-> f07.ret]
       ELSE IF f16.ret.status # "ok"
       THEN [filt |-> <<f07.filt, f16.filt>>,
             singlon |-> <<f07.singlon, f16.singlon>>, ret |-> f16.ret]
       ELSE [filt |-> <<f07.filt, f16.filt>>,
             singlon |-> <<f07.singlon, f16.singlon>>,
             ret |-> Ok(f07.ret.val \o f16.ret.val)]

(* ------------------------------ inputs -------------------------------- *)

\* one row of a data file: longitude g/10 degrees, velocity v km/s
Row(g, v) == [glon |-> Flt(g, 10), vterm |-> Flt(v, 1)]

\* rows of clemens1985_table2.dat and McClureGriffiths2016.dat: longitudes on
\* both window edges (40, 80), on a bin edge (41) and inside bins 40 and 42
RowsLow ==
    {Row(400, 10), Row(402, 10), Row(402, 20), Row(407, 12),
     Row(410, 12), Row(421, 20), Row(421, 10), Row(800, 20)}

\* rows of McClureGriffiths2007.dat: the same around the window (280, 320)
Rows07 ==
    {Row(2800, 10), Row(2802, 10), Row(2802, 20), Row(2807, 12),
     Row(2810, 12), Row(2821, 20), Row(2821, 10), Row(3200, 20)}

\* rows of the two files of readallMcClureGriffiths
RowsAll07 == {Row(2800, 10), Row(2802, 10), Row(2821, 20)}

RowsAll16 == {Row(402, 10), Row(421, 20), Row(800, 20)}

Tables(rows, n) == UNION {[1..k -> rows] : k \in 0..n}

\* samples of a direct _calc_corr call
CorrInputs == {NaN, Flt(0 - 1, 2), Flt(0, 1), Flt(1, 4)}

\* dsinl: the default 0.5 / 8.0, and 1.0
DsinlValues == {Flt(1, 16), Flt(1, 1)}

\* the keyword argument bin of a call
BinKw == {"absent", "True", "False"}

\* the value of the parameter bin (default True) in the McClure-Griffiths readers
BinArg(kw) == kw # "False"

(* --------------------------- state machine ---------------------------- *)

Init ==
    /\ fn = "import"
    /\ data = <<>>
    /\ dsinl = Flt(1, 16)
    /\ bin = "absent"
    /\ inv_ok = <<>>
    /\ filt = <<>>
    /\ singlon = <<>>
    /\ ret = Ok(<<>>)

\* The functions share no state: a behaviour is one call made after the import.
Idle == fn = "import"

Call_calc_corr ==
    /\ Idle
    /\ \E n \in 0..MaxN : \E s \in [1..n -> CorrInputs] : \E d \in DsinlValues :
        /\ fn' = "_calc_corr"
        /\ data' = <<>>
        /\ dsinl' = d
        /\ bin' = "absent"
        /\ inv_ok' = <<>>
        /\ filt' = <<>>
        /\ singlon' = s
        /\ ret' = Ok(_calc_corr(s, d))

Call_binlbins ==
    /\ Idle
    /\ \E t \in Tables(RowsLow, MaxRows) :
        /\ fn' = "_binlbins"
        /\ data' = <<t>>
        /\ dsinl' = Flt(1, 16)
        /\ bin' = "absent"
        /\ inv_ok' = <<>>
        /\ filt' = <<>>
        /\ singlon' = <<>>
        /\ ret' = _binlbins(Col0(t), Col1(t), Flt(1, 1))

CallReader(name, t, d, kw, ok, frame) ==
    /\ fn' = name
    /\ data' = <<t>>
    /\ dsinl' = d
    /\ bin' = kw
    /\ inv_ok' = <<ok>>
    /\ filt' = frame.filt
    /\ singlon' = frame.singlon
    /\ ret' = frame.ret

CallReadClemens ==
    /\ Idle
    /\ \E t \in Tables(RowsLow, MaxRows) : \E d \in DsinlValues :
       \E kw \in BinKw : \E ok \in BOOLEAN :
        CallReader("readClemens", t, d, kw, ok, readClemens(t, d, kw, ok))

CallReadMcClureGriffiths07 ==
    /\ Idle
    /\ \E t \in Tables(Rows07, MaxRows) : \E d \in DsinlValues :
       \E kw \in BinKw : \E ok \in BOOLEAN :
        CallReader("readMcClureGriffiths07", t, d, kw, ok,
                   readMcClureGriffiths07(t, d, BinArg(kw), ok))

CallReadMcClureGriffiths16 ==
    /\ Idle
    /\ \E t \in Tables(RowsLow, MaxRows) : \E d \in DsinlValues :
       \E kw \in BinKw : \E ok \in BOOLEAN :
        CallReader("readMcClureGriffiths16", t, d, kw, ok,
                   readMcClureGriffiths16(t, d, BinArg(kw), ok))

CallReadall ==
    /\ Idle
    /\ \E t07 \in Tables(RowsAll07, MaxRowsAll) : \E t16 \in Tables(RowsAll16, MaxRowsAll) :
       \E d \in DsinlValues : \E kw \in BinKw : \E ok07, ok16 \in BOOLEAN :
        LET frame == readallMcClureGriffiths(t07, t16, d, BinArg(kw), ok07, ok16)
        IN /\ fn' = "readallMcClureGriffiths"
           /\ data' = <<t07, t16>>
           /\ dsinl' = d
           /\ bin' = kw
           /\ inv_ok' = <<ok07, ok16>>
           /\ filt' = frame.filt
           /\ singlon' = frame.singlon
           /\ ret' = frame.ret

Next ==
    \/ Call_calc_corr
    \/ Call_binlbins
    \/ CallReadClemens
    \/ CallReadMcClureGriffiths07
    \/ CallReadMcClureGriffiths16
    \/ CallReadall

Spec == Init /\ [][Next]_vars

(* ------------------- properties: shared vocabulary -------------------- *)

Returned == ret.status = "ok"

\* the longitudes (in tenths of a degree) and velocities of a table, by row
LonTenths(t) == {t[j].glon.num : j \in 1..Len(t)}

MinDeg(t) == (CHOOSE x \in LonTenths(t) : \A y \in LonTenths(t) : x <= y) \div 10

MaxDeg(t) == (CHOOSE x \in LonTenths(t) : \A y \in LonTenths(t) : x >= y) \div 10

\* rows of t in the k-th integer-degree bin (k = 1 is the bin of the minimum),
\* with the lower edge included and with it excluded
HalfOpenMembers(t, k) ==
    {j \in 1..Len(t) : /\ (MinDeg(t) + k - 1) * 10 <= t[j].glon.num
                       /\ t[j].glon.num < (MinDeg(t) + k) * 10}

OpenMembers(t, k) ==
    {j \in 1..Len(t) : /\ (MinDeg(t) + k - 1) * 10 < t[j].glon.num
                       /\ t[j].glon.num < (MinDeg(t) + k) * 10}

RECURSIVE SumLon(_, _)
SumLon(t, J) ==
    IF J = {} THEN 0
    ELSE LET j == CHOOSE x \in J : TRUE IN t[j].glon.num + SumLon(t, J \ {j})

RECURSIVE SumVel(_, _)
SumVel(t, J) ==
    IF J = {} THEN 0
    ELSE LET j == CHOOSE x \in J : TRUE IN t[j].vterm.num + SumVel(t, J \ {j})

\* _binlbins was called directly on the columns of data[1]
BinCall == fn = "_binlbins"

(* ------------------------------- C1 ----------------------------------- *)

\* C1: bin i of _binlbins is the half-open interval [m+i, m+i+1), m = floor(min
\* longitude): every element with m+i <= L < m+i+1, the one on the lower edge
\* included, enters the mean emitted for bin i, so the emitted pair of a bin is
\* the mean longitude and mean velocity of its half-open members.
C1_HalfOpenBins ==
    (BinCall /\ Returned) =>
        \A k \in 1..Len(ret.val[1]) :
            LET J == HalfOpenMembers(data[1], k)
            IN J # {} =>
                /\ FEq(ret.val[1][k], Flt(SumLon(data[1], J), 10 * Cardinality(J)))
                /\ FEq(ret.val[2][k], Flt(SumVel(data[1], J), Cardinality(J)))

(* ------------------------------- C2 ----------------------------------- *)

\* the scenario glon = [40.2, 40.7, 42.1], vterm = [10, 12, 20]
C2_Scenario == <<Row(402, 10), Row(407, 12), Row(421, 20)>>

\* C2: for a non-empty input _binlbins returns floor(max) - floor(min) + 1
\* pairs, one per integer-degree bin in increasing bin order (a defined mean
\* longitude at position k lies in the k-th bin); a bin without members keeps
\* its position and holds NaN in both outputs, and a defined longitude comes
\* with a defined velocity; the scenario gives (40.45, 11), (NaN, NaN), (42.1, 20).
C2_OnePairPerBin ==
    (BinCall /\ Len(data[1]) > 0) =>
        /\ Returned
        /\ Len(ret.val) = 2
        /\ Len(ret.val[1]) = MaxDeg(data[1]) - MinDeg(data[1]) + 1
        /\ Len(ret.val[2]) = Len(ret.val[1])
        /\ \A k \in 1..Len(ret.val[1]) :
            /\ HalfOpenMembers(data[1], k) = {} =>
                   IsNaN(ret.val[1][k]) /\ IsNaN(ret.val[2][k])
            /\ IsNaN(ret.val[1][k]) <=> IsNaN(ret.val[2][k])
            /\ ~IsNaN(ret.val[1][k]) =>
                   /\ FLe(Flt(MinDeg(data[1]) + k - 1, 1), ret.val[1][k])
                   /\ FLt(ret.val[1][k], Flt(MinDeg(data[1]) + k, 1))
        /\ data[1] = C2_Scenario =>
            /\ FEq(ret.val[1][1], Flt(4045, 100)) /\ FEq(ret.val[2][1], Flt(11, 1))
            /\ IsNaN(ret.val[1][2]) /\ IsNaN(ret.val[2][2])
            /\ FEq(ret.val[1][3], Flt(421, 10)) /\ FEq(ret.val[2][3], Flt(20, 1))

\* the scenario has been run: three pairs, the middle one undefined
C2_Witness ==
    /\ BinCall /\ Returned
    /\ data[1] = C2_Scenario
    /\ Len(ret.val[1]) = 3
    /\ IsNaN(ret.val[1][2])

(* ------------------------------- C9 ----------------------------------- *)

Readers == {"readClemens", "readMcClureGriffiths07", "readMcClureGriffiths16"}

\* a reader was called with arguments its signature accepts
Ran == fn \in Readers /\ ~(fn = "readClemens" /\ bin # "absent")

\* the call asked for binning
Binned == fn = "readClemens" \/ bin # "False"

\* the window of the reader, in tenths of a degree
LoTenths == IF fn = "readMcClureGriffiths07" THEN 2800 ELSE 400

HiTenths == IF fn = "readMcClureGriffiths07" THEN 3200 ELSE 800

\* the rows of the file strictly inside the window
Kept ==
    SelectSeq(data[1], LAMBDA r : LoTenths < r.glon.num /\ r.glon.num < HiTenths)

\* the bins of the kept rows that hold a row
Bins == 1..(MaxDeg(Kept) - MinDeg(Kept) + 1)

FilledBins == {k \in Bins : OpenMembers(Kept, k) # {}}

(* ------------------------------- C3 ----------------------------------- *)

OffEdge == \A j \in 1..Len(Kept) : Kept[j].glon.num % 10 # 0

\* C4 as stated: after binning every adjacent pair of the returned longitudes
\* satisfies glon[i] <= glon[i+1], also when some bins are empty.  Read on
\* the files without a longitude on a bin edge, so that an empty bin is one
\* that no row falls in.
C4_AdjacentNonDecreasing ==
    (Ran /\ Binned /\ Returned /\ OffEdge) =>
        \A i \in 1..(Len(ret.val[1]) - 1) : FLe(ret.val[1][i], ret.val[1][i + 1])

\* C4 amended: the defined longitudes returned after binning are non-decreasing
\* in index order; readClemens, which drops the undefined ones, satisfies
\* glon[i] <= glon[i+1] at every adjacent pair.
C4_DefinedNonDecreasing ==
    (Ran /\ Binned /\ Returned) =>
        /\ \A i, j \in 1..Len(ret.val[1]) :
            (i < j /\ ~IsNaN(ret.val[1][i]) /\ ~IsNaN(ret.val[1][j]))
                => FLe(ret.val[1][i], ret.val[1][j])
        /\ fn = "readClemens" =>
            \A i \in 1..(Len(ret.val[1]) - 1) : FLe(ret.val[1][i], ret.val[1][i + 1])

\* a McClure-Griffiths reader returned two defined longitudes around an empty bin
C4_Witness ==
    /\ Ran /\ Binned /\ Returned
    /\ fn = "readMcClureGriffiths07"
    /\ OffEdge
    /\ Len(ret.val[1]) = 3
    /\ ~IsNaN(ret.val[1][1]) /\ IsNaN(ret.val[1][2]) /\ ~IsNaN(ret.val[1][3])

(* ------------------------------- C5 ----------------------------------- *)

\* C5: _binlbins given an empty longitude sequence raises and returns nothing,
\* and a reader whose filter left no row for the binning raises as a whole.
C5_EmptyRaises ==
    /\ (BinCall /\ Len(data[1]) = 0) => (ret.status = "ValueError" /\ ret.val = <<>>)
    /\ (Ran /\ Binned /\ Len(Kept) = 0) => (ret.status = "ValueError" /\ ret.val = <<>>)

\* a reader's filter removed every row of a non-empty file before the binning
C5_Witness ==
    /\ Ran /\ Binned
    /\ Len(data[1]) > 0 /\ Len(filt[1]) = 0
    /\ ~Returned

(* ------------------------------- C8 ----------------------------------- *)

C8_KeptNaN ==
    /\ Ran /\ Returned /\ Binned
    /\ fn = "readMcClureGriffiths16"
    /\ \E k \in 1..Len(ret.val[1]) : IsNaN(ret.val[1][k])

(* ------------------------------- C6 ----------------------------------- *)

AllCall == fn = "readallMcClureGriffiths"

\* what the two readers do on the files, arguments and numerics of the call
Alone07 == readMcClureGriffiths07(data[1], dsinl, BinArg(bin), inv_ok[1]).ret

Alone16 == readMcClureGriffiths16(data[2], dsinl, BinArg(bin), inv_ok[2]).ret

\* every defined longitude of g lies strictly between lo and hi degrees
LonsWithin(g, lo, hi) ==
    \A i \in 1..Len(g) : ~IsNaN(g[i]) => FLt(Flt(lo, 1), g[i]) /\ FLt(g[i], Flt(hi, 1))

\* C6: readallMcClureGriffiths returns the flat 6-tuple (glon07, vterm07,
\* corr07, glon16, vterm16, corr16), the fields of readMcClureGriffiths07
\* followed by those of readMcClureGriffiths16 for the same arguments; it
\* returns only if both readers return, and raises otherwise.
C6_FlatSixTuple ==
    AllCall =>
        /\ Returned <=> (Alone07.status = "ok" /\ Alone16.status = "ok")
        /\ ~Returned => ret.val = <<>>
        /\ Returned =>
            /\ Len(ret.val) = 6
            /\ \A i \in 1..3 : ret.val[i] = Alone07.val[i]
            /\ \A i \in 1..3 : ret.val[3 + i] = Alone16.val[i]
            /\ LonsWithin(ret.val[1], 280, 320) /\ LonsWithin(ret.val[4], 40, 80)
            /\ Len(ret.val[2]) = Len(ret.val[1]) /\ Dim(ret.val[3]) = Len(ret.val[1])
            /\ Len(ret.val[5]) = Len(ret.val[4]) /\ Dim(ret.val[6]) = Len(ret.val[4])

\* both surveys contributed rows, of different number
C6_Witness ==
    /\ AllCall /\ Returned
    /\ Len(ret.val[1]) = 1
    /\ Len(ret.val[4]) = 3

\* the combiner raised although the 2007 reader alone returns
C6_SecondFails ==
    /\ AllCall /\ ~Returned
    /\ Alone07.status = "ok"

(* ------------------------------- C7 ----------------------------------- *)

\* C7: readClemens accepts a parameter bin and bins whatever its value: a
\* call passing bin=False or bin=True does what the call without it does.
C7_BinAccepted ==
    (fn = "readClemens" /\ bin # "absent") =>
        ret = readClemens(data[1], dsinl, "absent", inv_ok[1]).ret

(* ------------------------------- C10 ---------------------------------- *)

CorrCall == fn = "_calc_corr"

\* every sample given to _calc_corr is a number
Finite(s) == \A i \in 1..Len(s) : ~IsNaN(s[i])

\* the exponent -|s_i - s_j| / dsinl, from the numerators and denominators
Exponent(s, d, i, j) ==
    LET x == s[i].num * s[j].den - s[j].num * s[i].den
    IN Flt(0 - (IF x < 0 THEN 0 - x ELSE x) * d.den, s[i].den * s[j].den * d.num)

\* the float m is exp(e) + k * 1e-10
IsExpPlus(m, e, k) == ~m.nan /\ FEq(m.a, e) /\ FEq(m.b, e) /\ m.eps = k

\* two entries are the same float: the sum of two floats does not depend on
\* the order of its operands
SameEntry(m1, m2) ==
    /\ ~m1.nan /\ ~m2.nan /\ m1.eps = m2.eps
    /\ \/ FEq(m1.a, m2.a) /\ FEq(m1.b, m2.b)
       \/ FEq(m1.a, m2.b) /\ FEq(m1.b, m2.a)

\* C10: for n sine-longitude values and dsinl > 0 the matrix of _calc_corr is
\* n x n and symmetric, every diagonal entry is exp(0) + 1e-10 = 1 + 1e-10,
\* and every off-diagonal entry is exp(-|s_i - s_j| / dsinl) with nothing added.
C10_CorrMatrix ==
    (CorrCall /\ Finite(singlon)) =>
        LET n == Len(singlon)
            M == ret.val
        IN /\ Returned
           /\ Len(M) = n
           /\ \A i \in 1..n : Len(M[i]) = n
           /\ \A i, j \in 1..n : SameEntry(M[i][j], M[j][i])
           /\ \A i \in 1..n : IsExpPlus(M[i][i], Flt(0, 1), 1)
           /\ \A i, j \in 1..n :
                i # j => IsExpPlus(M[i][j], Exponent(singlon, dsinl, i, j), 0)

\* three samples, two of them equal, the third at a different distance from each
C10_Witness ==
    /\ CorrCall /\ Finite(singlon) /\ Returned
    /\ Len(singlon) = 3
    /\ FEq(singlon[1], singlon[3])
    /\ FLt(singlon[2], singlon[1])
    /\ ~FEq(ret.val[1][2].a, Flt(0, 1))

====
